---- MODULE Spec2Model ----
(***************************************************************************)
(* Model of deduplicate.py: feature extraction (get_hash, alpha_stats,     *)
(* line_stats, preprocess), the stateful exact-duplicate filter            *)
(* (check_uniques, filter), the call of the near-duplicate clusterer and   *)
(* the shard-writing loop with compress_file.                              *)
(*                                                                         *)
(* A text is a sequence of one-character strings.  A dataset row is a      *)
(* record; ds.map adds the fields hash, alpha_frac and line_len to it.     *)
(***************************************************************************)
EXTENDS Integers, Sequences, FiniteSets, TLC

VARIABLES
    args,                \* parsed arguments: alpha_frac, samples_per_file
    ds,                  \* the dataset (line 81), with features after line 87
    uniques,             \* the set of still-unseen hashes (line 91)
    calls,               \* log of the filter calls that have ended, in order
    ds_filter,           \* the filtered dataset (line 97), reduced at line 103
    duplicate_clusters,  \* the cluster mapping returned at line 103
    files,               \* the output directory: file name -> content
    index,               \* the loop variable of line 120
    file_number,         \* the loop counter of line 120
    pass,                \* number of the current pass of the filter over ds
    workers,             \* per worker: the call frame it is executing
    pc,                  \* position of the main script
    error                \* the exception that stopped the run and where it was raised

vars == <<args, ds, uniques, calls, ds_filter, duplicate_clusters, files,
          index, file_number, pass, workers, pc, error>>

----------------------------------------------------------------------------
(* Bounds of the model. *)

MaxRecords == 3         \* records in the corpus
MaxTextLen == 3         \* characters of a text in the pure-function checks
MaxSamplesPerFile == 2  \* args.samples_per_file ranges over 1..MaxSamplesPerFile
MaxPasses == 2          \* passes of the filter over the corpus in SpecRepeat
MaxWorkers == 2         \* concurrent workers in SpecMap and SpecConc

----------------------------------------------------------------------------
(* Characters and texts. *)

\* An alphanumeric character, a punctuation character, a blank and a line
\* terminator: one representative of each class the code distinguishes.
Chars == {"a", ".", " ", "\n"}

\* str.isalnum of one character (line 27).
isalnum(c) == c = "a"

\* The characters the pattern \s matches (line 18).
IsSpace(c) == c \in {" ", "\n"}

\* The line boundaries str.splitlines splits on (line 33).
IsLineBreak(c) == c = "\n"

\* All texts of at most n characters.
TextsUpTo(n) == UNION {[1..k -> Chars] : k \in 0..n}

Min(a, b) == IF a < b THEN a ELSE b

----------------------------------------------------------------------------
(* get_hash, lines 18-22. *)

\* End of the maximal run of whitespace that starts at position i: the greedy
\* match of \s+ at i.
RECURSIVE RunEnd(_, _)
RunEnd(text, i) ==
    IF i < Len(text) /\ IsSpace(text[i + 1]) THEN RunEnd(text, i + 1) ELSE i

\* re.sub(PATTERN, "", text) scanning from position i: every match of \s+ is
\* replaced by the empty string, the other characters are copied.
RECURSIVE SubFrom(_, _)
SubFrom(text, i) ==
    IF i > Len(text) THEN <<>>
    ELSE IF IsSpace(text[i]) THEN SubFrom(text, RunEnd(text, i) + 1)
    ELSE <<text[i]>> \o SubFrom(text, i + 1)

\* A variant that replaces the first match only (re.sub with count=1).
re_sub_first(text) ==
    IF \E i \in 1..Len(text) : IsSpace(text[i])
    THEN LET i == CHOOSE k \in 1..Len(text) :
                     IsSpace(text[k]) /\ \A m \in 1..(k - 1) : ~IsSpace(text[m])
         IN  SubSeq(text, 1, i - 1) \o SubSeq(text, RunEnd(text, i) + 1, Len(text))
    ELSE text

re_sub(text) == SubFrom(text, 1)

\* The code of a character in the digest below.
CharCode(c) == CASE c = "a" -> 1 [] c = "." -> 2 [] c = " " -> 3 [] c = "\n" -> 4

\* hashlib.md5(bytes).hexdigest(): a function of the byte string alone.  The
\* digest of a string is modelled by its number in bijective base 5, so inside
\* the bounds two digests are equal exactly when the byte strings are (md5 has
\* no known collision on strings this short).
RECURSIVE md5_hexdigest(_)
md5_hexdigest(s) ==
    IF s = <<>> THEN 0
    ELSE CharCode(s[Len(s)]) + 5 * md5_hexdigest(SubSeq(s, 1, Len(s) - 1))

get_hash(example) == [hash |-> md5_hexdigest(re_sub(example.text))]

----------------------------------------------------------------------------
(* alpha_stats, lines 25-28, and line_stats, lines 31-34. *)

\* np.mean of a list of booleans: the number of True over the length.  The
\* mean of the empty list is nan, written here as the fraction 0/0.
np_mean(bools) ==
    [num |-> Cardinality({i \in 1..Len(bools) : bools[i]}), den |-> Len(bools)]

IsNaN(x) == x.den = 0

\* x < y and x >= y on floats; every comparison with nan is False.
FloatLt(x, y) == ~IsNaN(x) /\ ~IsNaN(y) /\ x.num * y.den < y.num * x.den
FloatGe(x, y) == ~IsNaN(x) /\ ~IsNaN(y) /\ x.num * y.den >= y.num * x.den

alpha_stats(example) ==
    [alpha_frac |-> np_mean([i \in 1..Len(example.text) |-> isalnum(example.text[i])])]

\* str.splitlines from position i, with cur the line read so far: a line ends
\* at each line boundary, and a last line without a boundary is kept unless
\* it is empty.
RECURSIVE SplitFrom(_, _, _)
SplitFrom(text, i, cur) ==
    IF i > Len(text) THEN (IF cur = <<>> THEN <<>> ELSE <<cur>>)
    ELSE IF IsLineBreak(text[i]) THEN <<cur>> \o SplitFrom(text, i + 1, <<>>)
    ELSE SplitFrom(text, i + 1, Append(cur, text[i]))

splitlines(text) == SplitFrom(text, 1, <<>>)

line_stats(example) ==
    [line_len |-> [k \in 1..Len(splitlines(example.text)) |->
                       Len(splitlines(example.text)[k])]]

----------------------------------------------------------------------------
(* preprocess, lines 46-52. *)

\* dict.update: the entries of other replace or extend those of d.
dict_update(d, other) == other @@ d

\* The empty dict of line 48.
EmptyDict == [k \in {} |-> 0]

preprocess(example) ==
    LET r0 == EmptyDict
        r1 == dict_update(r0, get_hash(example))
        r2 == dict_update(r1, alpha_stats(example))
        r3 == dict_update(r2, line_stats(example))
    IN  r3

----------------------------------------------------------------------------
(* check_uniques, lines 37-43, and filter, lines 55-64. *)

\* set.discard: removes x when present and never raises.
set_discard(s, x) == [raised |-> FALSE, set |-> s \ {x}]

\* A removal that empties the set (set.clear in place of set.remove).
set_remove_other(s, x) ==
    IF x \in s THEN [raised |-> FALSE, set |-> {}]
               ELSE [raised |-> TRUE, set |-> s]

\* set.remove: removes x, and raises KeyError when x is not in the set.
set_remove(s, x) ==
    IF x \in s THEN [raised |-> FALSE, set |-> s \ {x}]
               ELSE [raised |-> TRUE, set |-> s]

\* A check_uniques that forgets line 40 and leaves the hash in the set.
check_uniques_no_remove(example, u) ==
    [ret |-> example.hash \in u, uniques |-> u, raised |-> FALSE]

\* The value of a call and the set it leaves: ret is the returned value,
\* raised whether KeyError ended the call instead.
check_uniques(example, u) ==
    IF example.hash \in u
    THEN LET r == set_remove(u, example.hash)
         IN  [ret |-> ~r.raised, uniques |-> r.set, raised |-> r.raised]
    ELSE [ret |-> FALSE, uniques |-> u, raised |-> FALSE]

\* Lines 59-64 without the emptiness test of line 61.
heuristics_no_line_len(example, a) ==
    IF FloatLt(example.alpha_frac, a.alpha_frac) THEN FALSE ELSE TRUE

\* The branches of lines 59-64, taken once check_uniques has returned True.
heuristics(example, a) ==
    IF FloatLt(example.alpha_frac, a.alpha_frac) THEN FALSE
    ELSE IF example.line_len = <<>> THEN FALSE
    ELSE TRUE

\* A filter that tests the heuristics before it consults the set, so that a
\* record rejected on quality leaves its hash in the set.
filter_heuristics_first(example, u, a) ==
    IF ~heuristics(example, a)
    THEN [ret |-> FALSE, cu |-> FALSE, uniques |-> u, raised |-> FALSE]
    ELSE LET c == check_uniques(example, u)
         IN  [ret |-> c.ret, cu |-> c.ret, uniques |-> c.uniques, raised |-> c.raised]

\* filter: ret is the returned value, cu the value check_uniques returned,
\* uniques the set after the call.
filter(example, u, a) ==
    LET c == check_uniques(example, u)
    IN  [ret     |-> IF ~c.ret THEN FALSE ELSE heuristics(example, a),
         cu      |-> c.ret,
         uniques |-> c.uniques,
         raised  |-> c.raised]

----------------------------------------------------------------------------
(* The script, lines 75-125: initial state. *)

\* The texts the corpus of the pipeline specifications is drawn from:
\* "a", "a  ", "", " ", ".a" and "a\na".  The first two have the same hash
\* and different alpha_frac, and so have the third and the fourth.
CorpusTexts ==
    { <<"a">>, <<"a", " ", " ">>, <<>>, <<" ">>, <<".", "a">>, <<"a", "\n", "a">> }

\* The values of args.alpha_frac: 1/4 and 1/2.
AlphaFracs == { [num |-> 1, den |-> 4], [num |-> 1, den |-> 2] }

\* The datasets of at most MaxRecords rows with texts in T.
CorporaOf(T) ==
    UNION { [1..k -> {[text |-> t] : t \in T}] : k \in 0..MaxRecords }

Corpora == CorporaOf(CorpusTexts)

\* The values of the parsed arguments.
Arguments == [alpha_frac : AlphaFracs, samples_per_file : 1..MaxSamplesPerFile]

NoFiles == [f \in {} |-> <<>>]

NoError == [type |-> "none", at |-> "none"]

\* The state after lines 76-81: arguments parsed, dataset loaded.
InitWith(as, cs, ws) ==
    /\ args \in as
    /\ ds \in cs
    /\ uniques = {}
    /\ calls = <<>>
    /\ ds_filter = <<>>
    /\ duplicate_clusters = <<>>
    /\ files = NoFiles
    /\ index = 0
    /\ file_number = 0
    /\ pass = 1
    /\ workers \in ws
    /\ pc = "map"
    /\ error = NoError

Init == InitWith(Arguments, Corpora, {<<>>})

----------------------------------------------------------------------------
(* Lines 84-99: feature extraction, the set of hashes, the filtering pass. *)

\* example["text"] at lines 22, 27 and 33 raises KeyError on a row without
\* that field.
HasText(example) == "text" \in DOMAIN example

\* A map whose function reads the text with a default, example.get("text", ""),
\* so that a row without text gets the features of the empty text.
ds_map_default(rows) ==
    [raised |-> FALSE,
     ds |-> [i \in 1..Len(rows) |->
                dict_update(rows[i],
                            preprocess(IF HasText(rows[i]) THEN rows[i]
                                                           ELSE [text |-> <<>>]))]]

\* ds.map(preprocess): every row gains the fields preprocess returns; an
\* exception raised by preprocess for some row ends the map without a result.
ds_map(rows) ==
    IF \E i \in 1..Len(rows) : ~HasText(rows[i])
    THEN [raised |-> TRUE, ds |-> rows]
    ELSE [raised |-> FALSE,
          ds |-> [i \in 1..Len(rows) |-> dict_update(rows[i], preprocess(rows[i]))]]

\* Line 87, as a whole.
Map ==
    /\ pc = "map"
    /\ IF ds_map(ds).raised
       THEN /\ pc' = "failed"
            /\ error' = [type |-> "KeyError", at |-> pc]
            /\ ds' = ds
       ELSE /\ ds' = ds_map(ds).ds
            /\ pc' = "uniques"
            /\ error' = error
    /\ UNCHANGED <<args, uniques, calls, ds_filter, duplicate_clusters, files,
                   index, file_number, pass, workers>>

\* Lines 91-92: the set of the hashes, then the fraction len(uniques)/len(ds),
\* whose division raises ZeroDivisionError on a dataset without rows.
BuildUniques ==
    /\ pc = "uniques"
    /\ uniques' = {ds[i].hash : i \in 1..Len(ds)}
    /\ IF Len(ds) = 0
       THEN pc' = "failed" /\ error' = [type |-> "ZeroDivisionError", at |-> pc]
       ELSE pc' = "filter" /\ error' = error
    /\ UNCHANGED <<args, ds, calls, ds_filter, duplicate_clusters, files,
                   index, file_number, pass, workers>>

\* The calls of the current pass that have ended.
PassCalls == SelectSeq(calls, LAMBDA c : c.pass = pass)

\* Line 97, one row: ds.filter calls filter on the rows in order and keeps
\* those it returns True for.
FilterStep ==
    /\ pc = "filter"
    /\ LET i == Len(PassCalls) + 1
           r == filter(ds[i], uniques, args)
       IN  /\ i <= Len(ds)
           /\ uniques' = r.uniques
           /\ calls' = Append(calls, [pass |-> pass, i |-> i, tested |-> r.cu,
                                      cu |-> r.cu, ret |-> r.ret])
           /\ ds_filter' = IF r.ret THEN Append(ds_filter, ds[i]) ELSE ds_filter
           /\ pc' = IF i = Len(ds) THEN "cluster" ELSE "filter"
    /\ UNCHANGED <<args, ds, duplicate_clusters, files, index, file_number,
                   pass, workers, error>>

----------------------------------------------------------------------------
(* Line 103: the near-duplicate clusterer, an opaque call. *)

\* The outputs deduplicate_dataset can return for n rows: the set of the
\* positions it keeps, one per cluster.  Every row is in one cluster, so some
\* row is kept unless there is none.
ClustererOutputs(n) ==
    { R \in SUBSET (1..n) : n > 0 => 1 \in R }

\* The rows of s at the positions in R, in the order of s.
RECURSIVE Keep(_, _, _)
Keep(s, R, i) ==
    IF i > Len(s) THEN <<>>
    ELSE (IF i \in R THEN <<s[i]>> ELSE <<>>) \o Keep(s, R, i + 1)

\* The cluster of each kept position: itself and the dropped positions after
\* it up to the next kept one.
ClusterMapping(n, R) ==
    { {j \in r..n : \A q \in R : q <= r \/ q > j} : r \in R }

\* Line 103 returns the reduced dataset and the cluster mapping, or raises.
Cluster ==
    /\ pc = "cluster"
    /\ \/ \E R \in ClustererOutputs(Len(ds_filter)) :
            /\ ds_filter' = Keep(ds_filter, R, 1)
            /\ duplicate_clusters' = ClusterMapping(Len(ds_filter), R)
            /\ pc' = "dump"
            /\ error' = error
       \/ /\ pc' = "failed"
          /\ error' = [type |-> "ClustererError", at |-> pc]
          /\ UNCHANGED <<ds_filter, duplicate_clusters>>
    /\ UNCHANGED <<args, ds, uniques, calls, files, index, file_number, pass,
                   workers>>

----------------------------------------------------------------------------
(* Lines 107-125: the cluster mapping artifact and the shards. *)

ClustersFile == <<"duplicate_clusters.json", 0>>
JsonFile(k) == <<"json", k>>     \* data/file-{k:012}.json
GzFile(k) == <<"json.gz", k>>    \* data/file-{k:012}.json.gz

\* The directory d with file f created or overwritten with content c.
WriteFile(d, f, c) == [g \in (DOMAIN d) \cup {f} |-> IF g = f THEN c ELSE d[g]]

\* An unlink that removes nothing.
RemoveFile_kept(d, f) == d

\* The directory d without file f.
RemoveFile(d, f) == [g \in (DOMAIN d) \ {f} |-> d[g]]

\* The proper prefixes of a content: what a writer that fails has written.
ProperPrefixes(c) == {SubSeq(c, 1, n) : n \in 0..(Len(c) - 1)}

\* An exception ends the run, nothing catches it; at is the step that raised.
Raise(e) == pc' = "failed" /\ error' = [type |-> e, at |-> pc]

\* The dump of lines 113-114 placed before the call of line 103.
DumpClusters_before_cluster ==
    /\ pc = "cluster"
    /\ ClustersFile \notin DOMAIN files
    /\ files' = WriteFile(files, ClustersFile, <<duplicate_clusters>>)
    /\ UNCHANGED <<args, ds, uniques, calls, ds_filter, duplicate_clusters,
                   index, file_number, pass, workers, pc, error>>

\* Lines 113-114: the cluster mapping is dumped; the shard loop starts.
DumpClusters ==
    /\ pc = "dump"
    /\ \/ /\ files' = WriteFile(files, ClustersFile, <<duplicate_clusters>>)
          /\ pc' = "loop"
          /\ error' = error
       \/ /\ Raise("OSError")
          /\ files' \in {files, WriteFile(files, ClustersFile, <<>>)}
    /\ UNCHANGED <<args, ds, uniques, calls, ds_filter, duplicate_clusters,
                   index, file_number, pass, workers>>

\* range(0, len(ds_filter), args.samples_per_file) is exhausted: line 125.
LoopExit ==
    /\ pc = "loop"
    /\ index >= Len(ds_filter)
    /\ pc' = "done"
    /\ UNCHANGED <<args, ds, uniques, calls, ds_filter, duplicate_clusters,
                   files, index, file_number, pass, workers, error>>

\* An end index that leaves one row out of every shard.
end_index_short(i) == Min(Len(ds_filter), i + args.samples_per_file) - 1

\* Line 122.
end_index(i) == Min(Len(ds_filter), i + args.samples_per_file)

\* Lines 121-123: the rows index..end_index-1 are written to the json file of
\* shard file_number+1.
ToJson ==
    /\ pc = "loop"
    /\ index < Len(ds_filter)
    /\ LET rows == SubSeq(ds_filter, index + 1, end_index(index))
       IN  \/ /\ files' = WriteFile(files, JsonFile(file_number + 1), rows)
              /\ pc' = "open"
              /\ error' = error
           \/ /\ Raise("OSError")
              /\ \/ files' = files
                 \/ \E c \in ProperPrefixes(rows) :
                       files' = WriteFile(files, JsonFile(file_number + 1), c)
    /\ UNCHANGED <<args, ds, uniques, calls, ds_filter, duplicate_clusters,
                   index, file_number, pass, workers>>

\* compress_file, lines 69-70: the source is opened and the .gz file created.
OpenGz ==
    /\ pc = "open"
    /\ \/ /\ files' = WriteFile(files, GzFile(file_number + 1), <<>>)
          /\ pc' = "copy"
          /\ error' = error
       \/ /\ Raise("OSError")
          /\ files' = files
    /\ UNCHANGED <<args, ds, uniques, calls, ds_filter, duplicate_clusters,
                   index, file_number, pass, workers>>

\* compress_file, line 71: the source is copied into the .gz file and both
\* are closed.  A copy that fails leaves what it has written in the .gz file.
CopyFileObj ==
    /\ pc = "copy"
    /\ LET src == files[JsonFile(file_number + 1)]
       IN  \/ /\ files' = WriteFile(files, GzFile(file_number + 1), src)
              /\ pc' = "unlink"
              /\ error' = error
           \/ /\ Raise("OSError")
              /\ \E c \in ProperPrefixes(src) :
                    files' = WriteFile(files, GzFile(file_number + 1), c)
    /\ UNCHANGED <<args, ds, uniques, calls, ds_filter, duplicate_clusters,
                   index, file_number, pass, workers>>

\* compress_file, line 72: the source is removed; the loop goes on with the
\* next value of the range.
Unlink ==
    /\ pc = "unlink"
    /\ \/ /\ files' = RemoveFile(files, JsonFile(file_number + 1))
          /\ index' = index + args.samples_per_file
          /\ file_number' = file_number + 1
          /\ pc' = "loop"
          /\ error' = error
       \/ /\ Raise("OSError")
          /\ UNCHANGED <<files, index, file_number>>
    /\ UNCHANGED <<args, ds, uniques, calls, ds_filter, duplicate_clusters,
                   pass, workers>>

----------------------------------------------------------------------------
(* The run of the script as written: one sequential pass of the filter. *)

Next ==
    \/ Map
    \/ BuildUniques
    \/ FilterStep
    \/ Cluster
    \/ DumpClusters
    \/ ToJson
    \/ OpenGz
    \/ CopyFileObj
    \/ Unlink
    \/ LoopExit

Spec == Init /\ [][Next]_vars

----------------------------------------------------------------------------
(* The filter invoked again on the same rows with the same set: further     *)
(* passes of line 97 over ds, each in iteration order.                      *)

NextPass ==
    /\ pc = "cluster"
    /\ pass < MaxPasses
    /\ pass' = pass + 1
    /\ ds_filter' = <<>>
    /\ pc' = "filter"
    /\ UNCHANGED <<args, ds, uniques, calls, duplicate_clusters, files, index,
                   file_number, workers, error>>

NextRepeat ==
    \/ Map
    \/ BuildUniques
    \/ FilterStep
    \/ NextPass

SpecRepeat == Init /\ [][NextRepeat]_vars

----------------------------------------------------------------------------
(* Concurrent workers.  A worker is idle or inside one call; i is the row   *)
(* of the call and results the dict of line 48.                             *)

IdleFrame == [at |-> "idle", i |-> 0, results |-> EmptyDict]

WorkerPools == { [w \in 1..n |-> IdleFrame] : n \in 1..MaxWorkers }

\* The filter does not read samples_per_file: one value of it is enough.
InitWorkers ==
    InitWith({a \in Arguments : a.samples_per_file = 1}, Corpora, WorkerPools)

AllIdle == \A w \in DOMAIN workers : workers[w].at = "idle"

\* The rows some worker is working on.
InProgress == { workers[w].i : w \in {v \in DOMAIN workers : workers[v].at # "idle"} }

----------------------------------------------------------------------------
(* Line 87 with num_proc workers: each worker runs preprocess, lines 46-52, *)
(* on the rows it is given, one statement at a time.                        *)

\* All workers bind results to one dict (a dict created once, outside the
\* function).
results_shared(w) == 1

\* The frame that holds the dict worker w's call binds to results at line 48:
\* a new dict in every call, so the worker's own.
results_of(w) == w

Extracted(i) == DOMAIN ds[i] # {"text"}

\* Line 48: worker w is given a row no worker has had, and creates the dict.
MapStart(w) ==
    /\ pc = "map"
    /\ workers[w].at = "idle"
    /\ \E i \in 1..Len(ds) :
          /\ ~Extracted(i)
          /\ i \notin InProgress
          /\ workers' = [workers EXCEPT ![w].at = "line49", ![w].i = i,
                                        ![results_of(w)].results = EmptyDict]
    /\ UNCHANGED <<args, ds, uniques, calls, ds_filter, duplicate_clusters,
                   files, index, file_number, pass, pc, error>>

\* Line 49.
MapGetHash(w) ==
    /\ workers[w].at = "line49"
    /\ workers' = [workers EXCEPT
          ![w].at = "line50",
          ![results_of(w)].results = dict_update(@, get_hash(ds[workers[w].i]))]
    /\ UNCHANGED <<args, ds, uniques, calls, ds_filter, duplicate_clusters,
                   files, index, file_number, pass, pc, error>>

\* Line 50.
MapAlphaStats(w) ==
    /\ workers[w].at = "line50"
    /\ workers' = [workers EXCEPT
          ![w].at = "line51",
          ![results_of(w)].results = dict_update(@, alpha_stats(ds[workers[w].i]))]
    /\ UNCHANGED <<args, ds, uniques, calls, ds_filter, duplicate_clusters,
                   files, index, file_number, pass, pc, error>>

\* Line 51.
MapLineStats(w) ==
    /\ workers[w].at = "line51"
    /\ workers' = [workers EXCEPT
          ![w].at = "line52",
          ![results_of(w)].results = dict_update(@, line_stats(ds[workers[w].i]))]
    /\ UNCHANGED <<args, ds, uniques, calls, ds_filter, duplicate_clusters,
                   files, index, file_number, pass, pc, error>>

\* Line 52: the dict is returned and ds.map adds its entries to the row.
MapReturn(w) ==
    /\ workers[w].at = "line52"
    /\ ds' = [ds EXCEPT ![workers[w].i] =
                  dict_update(@, workers[results_of(w)].results)]
    /\ workers' = [workers EXCEPT ![w] = IdleFrame]
    /\ UNCHANGED <<args, uniques, calls, ds_filter, duplicate_clusters, files,
                   index, file_number, pass, pc, error>>

\* ds.map returns when every row has been through a worker.
MapJoin ==
    /\ pc = "map"
    /\ AllIdle
    /\ \A i \in 1..Len(ds) : Extracted(i)
    /\ pc' = "uniques"
    /\ UNCHANGED <<args, ds, uniques, calls, ds_filter, duplicate_clusters,
                   files, index, file_number, pass, workers, error>>

NextMap ==
    \/ \E w \in DOMAIN workers :
          \/ MapStart(w)
          \/ MapGetHash(w)
          \/ MapAlphaStats(w)
          \/ MapLineStats(w)
          \/ MapReturn(w)
    \/ MapJoin
    \/ BuildUniques

\* Texts with pairwise different features: "a", "a  " and "a\na".
MapTexts == { <<"a">>, <<"a", " ", " ">>, <<"a", "\n", "a">> }

\* preprocess reads no argument: one value of args is enough here.
InitMap ==
    InitWith({a \in Arguments : a.alpha_frac.den = 4 /\ a.samples_per_file = 1},
             CorporaOf(MapTexts), WorkerPools)

SpecMap == InitMap /\ [][NextMap]_vars

----------------------------------------------------------------------------
(* Line 97 evaluated by concurrent workers that share the set uniques:      *)
(* each worker runs filter on the next row of ds, and the membership test   *)
(* of line 39 and the removal of line 40 are two steps.                     *)

\* An idle worker is given the next row of ds.
FilterTake(w) ==
    /\ pc = "filter"
    /\ workers[w].at = "idle"
    /\ LET i == Len(calls) + Cardinality(InProgress) + 1
       IN  /\ i <= Len(ds)
           /\ workers' = [workers EXCEPT ![w].at = "line39", ![w].i = i]
    /\ UNCHANGED <<args, ds, uniques, calls, ds_filter, duplicate_clusters,
                   files, index, file_number, pass, pc, error>>

\* Line 39, and lines 42-43 and 57-58 when the hash is not in the set.
FilterTest(w) ==
    /\ pc = "filter"
    /\ workers[w].at = "line39"
    /\ IF ds[workers[w].i].hash \in uniques
       THEN /\ workers' = [workers EXCEPT ![w].at = "line40"]
            /\ calls' = calls
       ELSE /\ workers' = [workers EXCEPT ![w] = IdleFrame]
            /\ calls' = Append(calls, [pass |-> pass, i |-> workers[w].i,
                                       tested |-> FALSE, cu |-> FALSE, ret |-> FALSE])
    /\ UNCHANGED <<args, ds, uniques, ds_filter, duplicate_clusters, files,
                   index, file_number, pass, pc, error>>

\* Lines 40-41: the hash is removed and check_uniques returns True, or the
\* removal raises KeyError, which ends the call and the run.
FilterRemove(w) ==
    /\ pc = "filter"
    /\ workers[w].at = "line40"
    /\ LET r == set_remove(uniques, ds[workers[w].i].hash)
       IN  IF r.raised
           THEN /\ Raise("KeyError")
                /\ calls' = Append(calls, [pass |-> pass, i |-> workers[w].i,
                                           tested |-> TRUE, cu |-> FALSE, ret |-> FALSE])
                /\ workers' = [workers EXCEPT ![w] = IdleFrame]
                /\ uniques' = uniques
           ELSE /\ uniques' = r.set
                /\ workers' = [workers EXCEPT ![w].at = "line59"]
                /\ UNCHANGED <<calls, pc, error>>
    /\ UNCHANGED <<args, ds, ds_filter, duplicate_clusters, files, index,
                   file_number, pass>>

\* Lines 59-64: check_uniques has returned True; the heuristics decide.
FilterHeuristics(w) ==
    /\ pc = "filter"
    /\ workers[w].at = "line59"
    /\ calls' = Append(calls, [pass |-> pass, i |-> workers[w].i, tested |-> TRUE,
                               cu |-> TRUE,
                               ret |-> heuristics(ds[workers[w].i], args)])
    /\ workers' = [workers EXCEPT ![w] = IdleFrame]
    /\ UNCHANGED <<args, ds, uniques, ds_filter, duplicate_clusters, files,
                   index, file_number, pass, pc, error>>

\* ds.filter returns the rows filter returned True for, in the order of ds.
FilterJoin ==
    /\ pc = "filter"
    /\ AllIdle
    /\ Len(calls) = Len(ds)
    /\ ds_filter' = Keep(ds, {calls[n].i : n \in {m \in 1..Len(calls) : calls[m].ret}}, 1)
    /\ pc' = "cluster"
    /\ UNCHANGED <<args, ds, uniques, calls, duplicate_clusters, files, index,
                   file_number, pass, workers, error>>

NextConc ==
    \/ Map
    \/ BuildUniques
    \/ \E w \in DOMAIN workers :
          \/ FilterTake(w)
          \/ FilterTest(w)
          \/ FilterRemove(w)
          \/ FilterHeuristics(w)
    \/ FilterJoin

SpecConc == InitWorkers /\ [][NextConc]_vars

----------------------------------------------------------------------------
(* get_hash applied to the rows of a dataset of two texts, each any text of *)
(* at most MaxTextLen characters.                                           *)

InitHash ==
    /\ ds \in [1..2 -> {[text |-> t] : t \in TextsUpTo(MaxTextLen)}]
    /\ args \in {a \in Arguments : a.alpha_frac.den = 4 /\ a.samples_per_file = 1}
    /\ uniques = {}
    /\ calls = <<>>
    /\ ds_filter = <<>>
    /\ duplicate_clusters = <<>>
    /\ files = NoFiles
    /\ index = 0
    /\ file_number = 0
    /\ pass = 1
    /\ workers = <<>>
    /\ pc = "map"
    /\ error = NoError

\* One call of get_hash; the row gains the field it returns.
GetHashCall ==
    /\ \E i \in 1..Len(ds) :
          /\ ~Extracted(i)
          /\ ds' = [ds EXCEPT ![i] = dict_update(@, get_hash(@))]
    /\ UNCHANGED <<args, uniques, calls, ds_filter, duplicate_clusters, files,
                   index, file_number, pass, workers, pc, error>>

SpecHash == InitHash /\ [][GetHashCall]_vars

----------------------------------------------------------------------------
(* One row through feature extraction and the filter, for every text of at  *)
(* most MaxTextLen characters and thresholds from 0 to 1.                   *)

\* Values of args.alpha_frac: 0, 1/4, 1/2 and 1.
AlphaFracsWide ==
    AlphaFracs \cup { [num |-> 0, den |-> 1], [num |-> 1, den |-> 1] }

InitRow ==
    InitWith([alpha_frac : AlphaFracsWide, samples_per_file : {1}],
             { <<[text |-> t]>> : t \in TextsUpTo(MaxTextLen) },
             {<<>>})

NextRow ==
    \/ Map
    \/ BuildUniques
    \/ FilterStep

SpecRow == InitRow /\ [][NextRow]_vars

----------------------------------------------------------------------------
(* The run on a corpus in which rows may lack the text field.               *)

\* Rows with a text, "a" or "a  ", and a row that has another field instead.
MalformedRow == [content |-> <<"a">>]

RowsWithAndWithoutText == { [text |-> <<"a">>], [text |-> <<"a", " ", " ">>], MalformedRow }

InitMalformed ==
    InitWith(Arguments,
             UNION { [1..k -> RowsWithAndWithoutText] : k \in 0..MaxRecords },
             {<<>>})

SpecMalformed == InitMalformed /\ [][Next]_vars

----------------------------------------------------------------------------
(* Properties. *)

SameHash(i, j) == ds[i].hash = ds[j].hash

\* Row i is the first row of ds, in iteration order, with its hash.
FirstOfHash(i) == \A j \in 1..(i - 1) : ~SameHash(j, i)

CallNumbers == 1..Len(calls)

\* C1: under sequential evaluation in iteration order, starting from the set
\* of all hashes, check_uniques returns True for a row exactly when the row is
\* the first row with its hash and the call is its first one; every later row
\* with that hash and every further call on any row is rejected, so once the
\* first pass has ended each hash has exactly one accepted call.
C1_SingleSurvivor ==
    /\ \A n \in CallNumbers :
          calls[n].cu <=> (calls[n].pass = 1 /\ FirstOfHash(calls[n].i))
    /\ pc = "cluster" =>
          \A i \in 1..Len(ds) :
             Cardinality({n \in CallNumbers : calls[n].cu /\ SameHash(calls[n].i, i)}) = 1

\* A hash carried by two rows, both evaluated in the first pass and again in
\* a second pass.
C1_Witness ==
    /\ pass = 2
    /\ pc = "cluster"
    /\ \E i, j \in 1..Len(ds) : i < j /\ SameHash(i, j)

\* C2: a row whose alpha_frac is below args.alpha_frac is rejected by filter,
\* its hash is not in uniques after the call, and every later row with the
\* same hash is rejected whatever its alpha_frac and line_len.
C2_RejectedRowConsumesHash ==
    \A n \in CallNumbers :
       FloatLt(ds[calls[n].i].alpha_frac, args.alpha_frac) =>
          /\ ~calls[n].ret
          /\ ds[calls[n].i].hash \notin uniques
          /\ \A m \in CallNumbers :
                (m > n /\ SameHash(calls[m].i, calls[n].i)) => ~calls[m].ret

\* The first row of its hash is rejected for its alpha_frac, and a later row
\* with the same hash, which passes both heuristics, is rejected too.
C2_Witness ==
    \E n, m \in CallNumbers :
       /\ n < m
       /\ SameHash(calls[n].i, calls[m].i)
       /\ calls[n].cu
       /\ FloatLt(ds[calls[n].i].alpha_frac, args.alpha_frac)
       /\ heuristics(ds[calls[m].i], args)
       /\ ~calls[m].ret

\* C3: every row filter returned True for, and so every row of ds_filter
\* before the clusterer is called, has alpha_frac >= args.alpha_frac and a
\* non-empty line_len.
C3_KeptRowsPassHeuristics ==
    /\ \A n \in CallNumbers :
          calls[n].ret =>
             /\ FloatGe(ds[calls[n].i].alpha_frac, args.alpha_frac)
             /\ ds[calls[n].i].line_len # <<>>
    /\ pc \in {"filter", "cluster"} =>
          \A k \in 1..Len(ds_filter) :
             /\ FloatGe(ds_filter[k].alpha_frac, args.alpha_frac)
             /\ ds_filter[k].line_len # <<>>

\* The pass has ended with a row kept, a first-of-its-hash row rejected for an
\* empty line_len and one rejected for its alpha_frac.
C3_Witness ==
    /\ pc = "cluster"
    /\ Len(ds_filter) >= 1
    /\ \E n, m \in CallNumbers :
          /\ calls[n].cu /\ ds[calls[n].i].line_len = <<>>
          /\ calls[m].cu /\ FloatLt(ds[calls[m].i].alpha_frac, args.alpha_frac)

GzShards == {f \in DOMAIN files : f[1] = "json.gz"}
JsonShards == {f \in DOMAIN files : f[1] = "json"}

Ceil(l, n) == (l + n - 1) \div n

\* The contents of the compressed shards 1..k, one after the other.
RECURSIVE Concatenated(_)
Concatenated(k) ==
    IF k = 0 THEN <<>> ELSE Concatenated(k - 1) \o files[GzFile(k)]

\* C4: when the loop has ended, with L rows in the reduced set and
\* N = samples_per_file, the compressed shards are those numbered
\* 1..ceil(L/N), their contents in that order make up the reduced set, and
\* every shard has N rows except the last, which has between 1 and N.
C4_ShardPartition ==
    pc = "done" =>
       LET L == Len(ds_filter)
           N == args.samples_per_file
       IN  /\ GzShards = {GzFile(k) : k \in 1..Ceil(L, N)}
           /\ Concatenated(Ceil(L, N)) = ds_filter
           /\ \A k \in 1..(Ceil(L, N) - 1) : Len(files[GzFile(k)]) = N
           /\ Ceil(L, N) >= 1 =>
                 /\ Len(files[GzFile(Ceil(L, N))]) >= 1
                 /\ Len(files[GzFile(Ceil(L, N))]) <= N

\* Three rows written two per shard: a full shard and a shorter last one.
C4_Witness ==
    /\ pc = "done"
    /\ Len(ds_filter) = 3
    /\ args.samples_per_file = 2

\* C5: with a corpus of zero records the run does not fail; it ends having
\* written no shard and an empty cluster mapping.
C5_EmptyCorpusCompletes ==
    Len(ds) = 0 =>
       /\ error.type # "ZeroDivisionError"
       /\ pc = "done" => (GzShards = {} /\ duplicate_clusters = {})

\* C6: whenever the write-then-compress step of a shard has returned, the
\* compressed file of every shard written so far exists and no uncompressed
\* shard file does; at any point at most one uncompressed shard file exists.
C6_OneFilePerShard ==
    /\ Cardinality(JsonShards) <= 1
    /\ pc \in {"loop", "done"} =>
          /\ JsonShards = {}
          /\ \A k \in 1..file_number : GzFile(k) \in DOMAIN files

\* The second shard is being compressed after the first one was.
C6_Witness ==
    /\ pc = "copy"
    /\ file_number = 1
    /\ JsonFile(2) \in DOMAIN files

\* The rows of shard k.
ShardRows(k) ==
    SubSeq(ds_filter, (k - 1) * args.samples_per_file + 1,
           Min(Len(ds_filter), k * args.samples_per_file))

\* C7: when writing or compressing shard k fails, the run stops with the
\* source file of a shard under compression still there, no compressed file
\* with less than its shard's rows, and the cluster mapping and the
\* compressed shards 1..k-1 in place.
C7_FailureLeavesNoTruncatedShard ==
    (pc = "failed" /\ error.at \in {"loop", "open", "copy", "unlink"}) =>
       /\ error.at # "loop" => JsonFile(file_number + 1) \in DOMAIN files
       /\ \A f \in GzShards : files[f] = ShardRows(f[2])
       /\ ClustersFile \in DOMAIN files
       /\ files[ClustersFile] = <<duplicate_clusters>>
       /\ \A k \in 1..file_number : GzFile(k) \in DOMAIN files

\* The rows check_uniques has returned True for: in a call that has ended, or
\* in a call that has reached the heuristics of lines 59-64.
AcceptedRows ==
    {calls[n].i : n \in {m \in CallNumbers : calls[m].cu}}
       \cup {workers[w].i : w \in {v \in DOMAIN workers : workers[v].at = "line59"}}

\* C8, as amended: with concurrent workers sharing the set and line 39 and
\* line 40 two steps, no two rows with the same hash are both accepted; the
\* worker whose removal comes second gets KeyError, after another call has
\* accepted a row with that hash.  With one worker KeyError is never raised.
C8_RaceRaisesKeyError ==
    /\ \A i, j \in AcceptedRows : i # j => ~SameHash(i, j)
    /\ error.type = "KeyError" =>
          /\ Len(workers) > 1
          /\ calls[Len(calls)].tested
          /\ ~calls[Len(calls)].cu
          /\ \E i \in AcceptedRows : SameHash(i, calls[Len(calls)].i)

\* Two workers passed line 39 for the same hash and the second removal raised.
C8_Witness ==
    /\ error.type = "KeyError"
    /\ Len(workers) = 2

\* C8, as stated: in the interleaving where two workers pass the membership
\* test of line 39 for the same hash before either removes it, both rows are
\* accepted, that is, every call that passed the test returns True.
C8_RaceAcceptsBoth ==
    \A n \in CallNumbers : calls[n].tested => calls[n].cu

\* C9: whatever rows the workers are given and however their statements
\* interleave, every row gets the hash, alpha_frac and line_len of its own
\* text, and the set built at line 91 is the set of the hashes of the texts.
C9_ExtractionIndependentOfSchedule ==
    /\ \A i \in 1..Len(ds) :
          Extracted(i) =>
             ds[i] = dict_update([text |-> ds[i].text], preprocess(ds[i]))
    /\ pc \notin {"map", "uniques"} =>
          uniques = {get_hash(ds[i]).hash : i \in 1..Len(ds)}

\* Two workers are inside preprocess at different statements while another
\* row has already been returned.
C9_Witness ==
    /\ Len(workers) = 2
    /\ workers[1].at = "line50"
    /\ workers[2].at = "line52"
    /\ \E i \in 1..Len(ds) : Extracted(i)

\* The text without its whitespace characters.
DeleteWhitespace(text) == SelectSeq(text, LAMBDA c : ~IsSpace(c))

\* C10: two calls of get_hash on texts that are equal once every whitespace
\* character is deleted, the same text included, return equal digests.
C10_HashIgnoresWhitespace ==
    \A i, j \in 1..Len(ds) :
       (Extracted(i) /\ Extracted(j)
          /\ DeleteWhitespace(ds[i].text) = DeleteWhitespace(ds[j].text))
       => ds[i].hash = ds[j].hash

\* Two different texts, one with two separate runs of whitespace, that are
\* equal without their whitespace, both hashed.
C10_Witness ==
    /\ Extracted(1) /\ Extracted(2)
    /\ ds[1].text = <<" ", "a", " ">>
    /\ ds[2].text = <<"a">>
    /\ ds[1].hash = ds[2].hash

\* The text is not empty and has whitespace characters only.
OnlyWhitespace(text) == text # <<>> /\ \A k \in 1..Len(text) : IsSpace(text[k])

\* C11: a row whose text is one or more whitespace characters has alpha_frac
\* 0.0 and is rejected by filter whenever args.alpha_frac > 0; a row whose
\* text is empty has an empty line_len and is rejected by filter whatever its
\* alpha_frac and the threshold.
C11_BlankAndEmptyRejected ==
    \A n \in CallNumbers :
       LET row == ds[calls[n].i]
       IN  /\ OnlyWhitespace(row.text) =>
                /\ row.alpha_frac.num = 0
                /\ ~IsNaN(row.alpha_frac)
                /\ args.alpha_frac.num > 0 => ~calls[n].ret
           /\ row.text = <<>> =>
                /\ row.line_len = <<>>
                /\ ~calls[n].ret

\* A blank text, first of its hash, is rejected under threshold 1/4.
C11_Witness ==
    /\ pc = "cluster"
    /\ ds[1].text = <<" ", "\n">>
    /\ args.alpha_frac = [num |-> 1, den |-> 4]
    /\ calls[1].cu
    /\ ~calls[1].ret

\* The number of alphanumeric characters of a text.
AlnumCount(text) == Cardinality({k \in 1..Len(text) : isalnum(text[k])})

\* C12: for every text, the empty text included, alpha_frac is a fraction in
\* [0,1]: the number of alphanumeric characters of the text divided by the
\* number of its characters.
C12_AlphaFracIsFraction ==
    \A i \in 1..Len(ds) :
       Extracted(i) =>
          /\ ~IsNaN(ds[i].alpha_frac)
          /\ ds[i].alpha_frac.num = AlnumCount(ds[i].text)
          /\ ds[i].alpha_frac.den = Len(ds[i].text)
          /\ 0 <= ds[i].alpha_frac.num
          /\ ds[i].alpha_frac.num <= ds[i].alpha_frac.den

\* C13: when some row has no text field, feature extraction fails with
\* KeyError and the run stops there: no row has a hash, the set uniques is not
\* built, no filter call is made, nothing is clustered and nothing is written.
C13_MissingTextAborts ==
    (\E i \in 1..Len(ds) : ~HasText(ds[i])) =>
       /\ pc \in {"map", "failed"}
       /\ pc = "failed" => error = [type |-> "KeyError", at |-> "map"]
       /\ \A i \in 1..Len(ds) : "hash" \notin DOMAIN ds[i]
       /\ uniques = {}
       /\ calls = <<>>
       /\ ds_filter = <<>>
       /\ duplicate_clusters = <<>>
       /\ files = NoFiles

\* The run has stopped on a corpus with a row with text before one without.
C13_Witness ==
    /\ pc = "failed"
    /\ error.type = "KeyError"
    /\ Len(ds) >= 2
    /\ HasText(ds[1])
    /\ ~HasText(ds[2])

\* Line 91 has been executed: the set uniques exists.
UniquesBuilt ==
    /\ pc \notin {"map", "uniques"}
    /\ pc = "failed" => error.at \notin {"map", "uniques"}

Hashes == {ds[i].hash : i \in 1..Len(ds)}

\* Some call of filter on a row with the hash of row i has ended.
Evaluated(i) == \E n \in CallNumbers : SameHash(calls[n].i, i)

\* check_uniques has returned True for a row with the hash of row i.
Accepted(i) == \E n \in CallNumbers : calls[n].cu /\ SameHash(calls[n].i, i)

\* C14: at every point of the sequential pass, uniques holds hashes of the
\* corpus, each once, and the hash of a row is in uniques exactly when no row
\* with that hash has been accepted by check_uniques, which is exactly when
\* no row with that hash has been evaluated.
C14_InSetIffNotYetAccepted ==
    UniquesBuilt =>
       /\ uniques \subseteq Hashes
       /\ Cardinality(uniques) =
             Cardinality({ds[i].hash : i \in {j \in 1..Len(ds) : ~Evaluated(j)}})
       /\ \A i \in 1..Len(ds) :
             /\ ds[i].hash \in uniques <=> ~Accepted(i)
             /\ ds[i].hash \in uniques <=> ~Evaluated(i)

\* In the middle of the pass: a hash already accepted and met again, and a
\* hash still in the set.
C14_Witness ==
    /\ pc = "filter"
    /\ uniques # {}
    /\ \E n, m \in CallNumbers :
          n < m /\ SameHash(calls[n].i, calls[m].i) /\ calls[n].cu /\ ~calls[m].cu

\* C15: a call of filter leaves uniques as it is when the hash of its row is
\* not in it, and removes that hash and nothing else when it is; no other step
\* after line 91 changes uniques, so it only shrinks and stays a subset of
\* the set of the hashes of the corpus.
C15_UniquesOnlyShrinks ==
    /\ [](UniquesBuilt => uniques \subseteq Hashes)
    /\ [][ /\ pc \notin {"map", "uniques"} => uniques' \subseteq uniques
           /\ (pc \notin {"map", "uniques"} /\ calls' = calls) => uniques' = uniques
           /\ (pc = "filter" /\ calls' # calls) =>
                 LET h == ds[calls'[Len(calls')].i].hash
                 IN  uniques' = IF h \in uniques THEN uniques \ {h} ELSE uniques
         ]_vars

\* The pass is over, one call removed a hash and another changed nothing,
\* and the set is smaller than it was at line 91.
C15_Witness ==
    /\ pc = "dump"
    /\ Cardinality(uniques) < Cardinality(Hashes)
    /\ \E n, m \in CallNumbers : calls[n].cu /\ ~calls[m].cu

\* Row i passes the two heuristics of the claim.
PassesHeuristics(i) ==
    /\ FloatGe(ds[i].alpha_frac, args.alpha_frac)
    /\ ds[i].line_len # <<>>

AfterCluster == {"dump", "loop", "open", "copy", "unlink", "done"}

\* The call of the clusterer at line 103 has returned.
ClustererReturned ==
    \/ pc \in AfterCluster
    \/ pc = "failed" /\ error.at \in AfterCluster

\* C17: the stages run in one order.  uniques is built only when every row has
\* its features, and once; no filter call is made before that; the clusterer
\* is called only when the pass has evaluated every row, and once, a failure
\* of it ending the run; nothing is written before the clusterer has returned.
C17_StageOrder ==
    /\ [] /\ (uniques # {} \/ calls # <<>>) =>
                (UniquesBuilt /\ \A i \in 1..Len(ds) : Extracted(i))
          /\ (pc = "cluster" \/ ClustererReturned) => Len(calls) = Len(ds)
          /\ files # NoFiles => ClustererReturned
    /\ [][ /\ pc \notin {"failed", "done"}
           /\ pc' = "map" => pc = "map"
           /\ pc' = "uniques" => pc = "map"
           /\ pc' = "filter" => pc \in {"uniques", "filter"}
           /\ uniques' # uniques => pc \in {"uniques", "filter"}
           /\ calls' # calls => pc = "filter"
           /\ pc' = "cluster" => pc = "filter"
           /\ pc = "cluster" => pc' \in {"dump", "failed"}
           /\ ds_filter' # ds_filter => pc \in {"filter", "cluster"}
           /\ files' # files => pc \in AfterCluster
         ]_vars

\* A run that went through every stage and wrote a shard.
C17_Witness ==
    /\ pc = "done"
    /\ ClustersFile \in DOMAIN files
    /\ GzFile(1) \in DOMAIN files

\* C18: when a pass has evaluated every row, uniques is empty and the number
\* of calls check_uniques accepted is the number of distinct hashes of the
\* corpus; the calls of a second pass over the same rows accept nothing.
C18_DrainedAfterPass ==
    /\ pc = "cluster" =>
          /\ uniques = {}
          /\ Cardinality({n \in CallNumbers : calls[n].cu}) = Cardinality(Hashes)
          /\ pass >= 2 => ds_filter = <<>>
    /\ \A n \in CallNumbers :
          calls[n].pass >= 2 => (~calls[n].cu /\ ~calls[n].ret)

\* A second pass over three rows with two distinct hashes has ended.
C18_Witness ==
    /\ pass = 2
    /\ pc = "cluster"
    /\ Len(ds) = 3
    /\ Cardinality(Hashes) = 2
    /\ Len(calls) = 6

====
